---- MODULE Spec2Model ----
(***************************************************************************)
(* GATTProxy of mmi2grpc/gatt.py: the PTS prompt handlers of the GATT      *)
(* profile, their session state and the module's helper functions.         *)
(*                                                                         *)
(* A Python str is a sequence of one-character strings, so that slicing,   *)
(* replace, insert, lower and the regular expressions are computed.  The   *)
(* four session fields are tagged records [kind, val], kind "None" being   *)
(* Python's None.  The @assert_description decorator and the gRPC stubs    *)
(* are external: a remote call either raises or returns a value chosen     *)
(* among the values the remote side can return.                            *)
(*                                                                         *)
(* Spec is the proxy driven by any sequence of prompts.  HelperSpec applies *)
(* one module-level helper function to one input drawn from bounded sets,   *)
(* and formatUuid to its own results: call is the function and its          *)
(* arguments, result what it returned.                                      *)
(***************************************************************************)
EXTENDS Integers, Sequences, FiniteSets, TLC

VARIABLES connection, services, characteristics, descriptors,
          last, description, test, ret, rpcLog,
          call, result

vars == <<connection, services, characteristics, descriptors,
          last, description, test, ret, rpcLog, call, result>>

state == <<connection, services, characteristics, descriptors>>

-----------------------------------------------------------------------------
(* Characters and the str methods the module uses *)

UpperChars == <<"A","B","C","D","E","F","G","H","I","J","K","L","M",
                "N","O","P","Q","R","S","T","U","V","W","X","Y","Z">>

LowerChars == <<"a","b","c","d","e","f","g","h","i","j","k","l","m",
                "n","o","p","q","r","s","t","u","v","w","x","y","z">>

Digits == {"0","1","2","3","4","5","6","7","8","9"}

Range(s) == {s[i] : i \in 1..Len(s)}

\* str.lower() on one character
LowerChar(c) ==
    IF \E i \in 1..26 : UpperChars[i] = c
    THEN LowerChars[CHOOSE i \in 1..26 : UpperChars[i] = c]
    ELSE c

\* str.lower()
Lower(s) == [i \in 1..Len(s) |-> LowerChar(s[i])]

\* s.startswith(p, i), i counted from 0
StartsWithAt(s, p, i) ==
    /\ i + Len(p) <= Len(s)
    /\ \A k \in 1..Len(p) : s[i + k] = p[k]

RECURSIVE ReplaceFrom(_, _, _, _)
ReplaceFrom(s, old, new, i) ==
    IF i >= Len(s) THEN <<>>
    ELSE IF StartsWithAt(s, old, i)
         THEN new \o ReplaceFrom(s, old, new, i + Len(old))
         ELSE <<s[i + 1]>> \o ReplaceFrom(s, old, new, i + 1)

\* str.replace(old, new) for a non-empty old: every non-overlapping
\* occurrence, left to right
Replace(s, old, new) == ReplaceFrom(s, old, new, 0)

\* list.insert(i, c): an index past the end appends
Insert(s, i, c) ==
    LET k == IF i > Len(s) THEN Len(s) ELSE i
    IN  SubSeq(s, 1, k) \o <<c>> \o SubSeq(s, k + 1, Len(s))

-----------------------------------------------------------------------------
(* Regular expressions of the handlers *)

\* the character class [a0-Z9]: "a", the code points "0" to "Z", "9"
ClassHex == {"a"} \cup Digits \cup {":", ";", "<", "=", ">", "?", "@"}
                \cup Range(UpperChars)

\* the character class [a0-Z9-]
ClassHexDash == ClassHex \cup {"-"}

\* the end of the longest run of characters of cls starting at offset i
RECURSIVE RunEnd(_, _, _)
RunEnd(s, cls, i) ==
    IF i < Len(s) /\ s[i + 1] \in cls THEN RunEnd(s, cls, i + 1) ELSE i

\* A match at offset i of  pre (cls*) post : the class is matched greedily
\* and, as post starts outside the class, backtracking cannot help.
MatchAt(s, pre, cls, post, i) ==
    IF ~StartsWithAt(s, pre, i) THEN [ok |-> FALSE, end |-> i, group |-> <<>>]
    ELSE LET b == i + Len(pre)
             e == RunEnd(s, cls, b)
         IN  IF StartsWithAt(s, post, e)
             THEN [ok |-> TRUE, end |-> e + Len(post), group |-> SubSeq(s, b + 1, e)]
             ELSE [ok |-> FALSE, end |-> i, group |-> <<>>]

RECURSIVE FindAllFrom(_, _, _, _, _)
FindAllFrom(s, pre, cls, post, i) ==
    IF i >= Len(s) THEN <<>>
    ELSE LET m == MatchAt(s, pre, cls, post, i)
         IN  IF m.ok THEN <<m.group>> \o FindAllFrom(s, pre, cls, post, m.end)
             ELSE FindAllFrom(s, pre, cls, post, i + 1)

\* re.findall("pre([cls]*)post", s): the groups of the non-overlapping
\* matches, left to right
FindAll(s, pre, cls, post) == FindAllFrom(s, pre, cls, post, 0)

Quote == <<"'">>
QuoteO == <<"'", "O">>

\* re.findall("'([a0-Z9]*)'O", description)
FindHexTokens(d) == FindAll(d, Quote, ClassHex, QuoteO)

\* re.findall("'([a0-Z9-]*)'O", description)
FindHexDashTokens(d) == FindAll(d, Quote, ClassHexDash, QuoteO)

\* re.findall("0x([a0-Z9]*)'O", description)
Find0xTokens(d) == FindAll(d, <<"0", "x">>, ClassHex, QuoteO)

AndSize == <<"'", "O", " ", "a", "n", "d", " ", "s", "i", "z", "e", " ", "=", " ", "'">>

RECURSIVE FindWriteFrom(_, _)
FindWriteFrom(s, i) ==
    IF i >= Len(s) THEN <<>>
    ELSE LET m1 == MatchAt(s, Quote, ClassHex, AndSize, i)
             e2 == RunEnd(s, ClassHex, m1.end)
         IN  IF m1.ok /\ StartsWithAt(s, Quote, e2)
             THEN << <<m1.group, SubSeq(s, m1.end + 1, e2)>> >>
                     \o FindWriteFrom(s, e2 + 1)
             ELSE FindWriteFrom(s, i + 1)

\* re.findall("'([a0-Z9]*)'O and size = '([a0-Z9]*)'", description):
\* a list of pairs
FindWriteTokens(d) == FindWriteFrom(d, 0)

\* re.search("pre(.*)post", s): the leftmost start of pre for which a post
\* follows on the same line, the group running to the last such post.
\* The result is [ok |-> FALSE] for None.
SearchDotStar(s, pre, post) ==
    LET Ends(i) == {j \in (i + Len(pre))..Len(s) :
                      /\ StartsWithAt(s, post, j)
                      /\ \A k \in (i + Len(pre) + 1)..j : s[k] # "\n"}
        Starts == {i \in 0..Len(s) : StartsWithAt(s, pre, i) /\ Ends(i) # {}}
    IN  IF Starts = {} THEN [ok |-> FALSE, group |-> <<>>]
        ELSE LET i == CHOOSE a \in Starts : \A b \in Starts : a <= b
                 j == CHOOSE a \in Ends(i) : \A b \in Ends(i) : b <= a
             IN  [ok |-> TRUE, group |-> SubSeq(s, i + Len(pre) + 1, j)]

\* re.search("UUID = (.*)'O", description)
SearchUuidEq(d) == SearchDotStar(d, <<"U","U","I","D"," ","="," ">>, QuoteO)

\* re.search("UUID=0x(.*)  ", description)
SearchUuid0x(d) == SearchDotStar(d, <<"U","U","I","D","=","0","x">>, <<" ", " ">>)

-----------------------------------------------------------------------------
(* Module-level helpers.  A call that can raise yields [ok, val]. *)

Raise == [ok |-> FALSE, val |-> 0]

Value(v) == [ok |-> TRUE, val |-> v]

HexDigits == <<"0","1","2","3","4","5","6","7","8","9","A","B","C","D","E","F">>

IsHexDigit(c) == \E i \in 1..16 : HexDigits[i] = c \/ LowerChar(HexDigits[i]) = c

HexVal(c) == (CHOOSE i \in 1..16 : HexDigits[i] = c \/ LowerChar(HexDigits[i]) = c) - 1

RECURSIVE DigitsToInt(_, _)
DigitsToInt(s, base) ==
    IF s = <<>> THEN 0
    ELSE DigitsToInt(SubSeq(s, 1, Len(s) - 1), base) * base + HexVal(s[Len(s)])

\* int(s, 16) on the characters a token can hold: an optional sign, an
\* optional 0x or 0X prefix, then at least one hexadecimal digit; anything
\* else is a ValueError
IntBase16(s) ==
    LET neg == s # <<>> /\ s[1] = "-"
        s1 == IF neg THEN Tail(s) ELSE s
        pfx == Len(s1) >= 2 /\ s1[1] = "0" /\ s1[2] \in {"x", "X"}
        s2 == IF pfx THEN SubSeq(s1, 3, Len(s1)) ELSE s1
    IN  IF s2 # <<>> /\ \A i \in 1..Len(s2) : IsHexDigit(s2[i])
        THEN Value(IF neg THEN 0 - DigitsToInt(s2, 16) ELSE DigitsToInt(s2, 16))
        ELSE Raise

\* int(s) on the characters a token can hold: at least one decimal digit
IntBase10(s) ==
    IF s # <<>> /\ \A i \in 1..Len(s) : s[i] \in Digits
    THEN Value(DigitsToInt(s, 10))
    ELSE Raise

BaseTail == <<"-","0","0","0","0","-","1","0","0","0","-","8","0","0","0","-",
              "0","0","8","0","5","f","9","b","3","4","f","b">>

common_uuid == <<"0","0","0","0","X","X","X","X">> \o BaseTail

stringHandleToInt(handle) == IntBase16(handle)

stringCharHandleToInt(handle) ==
    LET h == IntBase16(handle)
    IN  IF h.ok THEN Value(h.val + 1) ELSE Raise

\* variant: the short form is not lowercased
formatUuid_keepcase(uuid) ==
    LET uuid_len == Len(uuid)
    IN  IF uuid_len = 4
        THEN Replace(common_uuid, SubSeq(common_uuid, 5, 8), uuid)
        ELSE IF uuid_len = 32 \/ uuid_len = 39
        THEN LET uuidCharList == Lower(Replace(uuid, <<"-">>, <<>>))
             IN  Insert(Insert(Insert(Insert(uuidCharList, 20, "-"), 16, "-"), 12, "-"), 8, "-")
        ELSE uuid

\* variant: a string of another length is lowercased too
formatUuid_lowerall(uuid) ==
    LET uuid_len == Len(uuid)
    IN  IF uuid_len = 4
        THEN Replace(common_uuid, SubSeq(common_uuid, 5, 8), Lower(uuid))
        ELSE IF uuid_len = 32 \/ uuid_len = 39
        THEN LET uuidCharList == Lower(Replace(uuid, <<"-">>, <<>>))
             IN  Insert(Insert(Insert(Insert(uuidCharList, 20, "-"), 16, "-"), 12, "-"), 8, "-")
        ELSE Lower(uuid)

\* variant: the dashes are inserted front to back at the same indices
formatUuid_ascending(uuid) ==
    LET uuid_len == Len(uuid)
    IN  IF uuid_len = 4
        THEN Replace(common_uuid, SubSeq(common_uuid, 5, 8), Lower(uuid))
        ELSE IF uuid_len = 32 \/ uuid_len = 39
        THEN LET uuidCharList == Lower(Replace(uuid, <<"-">>, <<>>))
             IN  Insert(Insert(Insert(Insert(uuidCharList, 8, "-"), 12, "-"), 16, "-"), 20, "-")
        ELSE uuid

formatUuid(uuid) ==
    LET uuid_len == Len(uuid)
    IN  IF uuid_len = 4
        THEN Replace(common_uuid, SubSeq(common_uuid, 5, 8), Lower(uuid))
        ELSE IF uuid_len = 32 \/ uuid_len = 39
        THEN LET uuidCharList == Lower(Replace(uuid, <<"-">>, <<>>))
             IN  Insert(Insert(Insert(Insert(uuidCharList, 20, "-"), 16, "-"), 12, "-"), 8, "-")
        ELSE uuid

\* formatUuid called with a list object (the result of re.findall, not one
\* of its elements): a list has neither lower() nor replace(), so the two
\* branches that convert raise AttributeError, the third returns the list
formatUuidOfList(uuid) ==
    LET uuid_len == Len(uuid)
    IN  IF uuid_len = 4 THEN Raise
        ELSE IF uuid_len = 32 \/ uuid_len = 39 THEN Raise
        ELSE Value(uuid)

\* a == b of Python for objects of type str and list
PyEq(a, b) == a.type = b.type /\ a.v = b.v

RECURSIVE IncludedLoop(_, _, _, _, _)
IncludedLoop(service, service_handle, included_handle, included_uuid, included_service_count) ==
    IF included_service_count > Len(service.included_services) THEN FALSE
    ELSE LET included_service == service.included_services[included_service_count]
         IN  IF /\ service.handle = service_handle - included_service_count
                /\ included_service.handle = included_handle
                /\ included_service.uuid = included_uuid
             THEN TRUE
             ELSE IncludedLoop(service, service_handle, included_handle,
                               included_uuid, included_service_count + 1)

\* variant: included_service_count is not incremented
compareIncludedServices_first(service, service_handle, included_handle, included_uuid) ==
    \E k \in 1..Len(service.included_services) :
        /\ service.handle = service_handle - 1
        /\ service.included_services[k].handle = included_handle
        /\ service.included_services[k].uuid = included_uuid

compareIncludedServices(service, service_handle, included_handle, included_uuid) ==
    IncludedLoop(service, service_handle, included_handle, included_uuid, 1)

RECURSIVE getCharacteristicsForServiceUuid(_, _)
getCharacteristicsForServiceUuid(svcs, uuid) ==
    IF svcs = <<>> THEN <<>>
    ELSE IF Head(svcs).uuid = uuid THEN Head(svcs).characteristics
    ELSE getCharacteristicsForServiceUuid(Tail(svcs), uuid)

\* the concatenation of the lists of a list, in order
RECURSIVE Flatten(_)
Flatten(ls) == IF ls = <<>> THEN <<>> ELSE Head(ls) \o Flatten(Tail(ls))

\* variant: the end handle is excluded
getCharacteristicsRange_exclusive(svcs, start_handle, end_handle, uuid) ==
    LET InRange(characteristic) ==
            /\ characteristic.handle >= start_handle
            /\ characteristic.handle < end_handle
            /\ characteristic.uuid = uuid
    IN  Flatten([i \in 1..Len(svcs) |-> SelectSeq(svcs[i].characteristics, InRange)])

getCharacteristicsRange(svcs, start_handle, end_handle, uuid) ==
    LET InRange(characteristic) ==
            /\ characteristic.handle >= start_handle
            /\ characteristic.handle <= end_handle
            /\ characteristic.uuid = uuid
    IN  Flatten([i \in 1..Len(svcs) |-> SelectSeq(svcs[i].characteristics, InRange)])

getDescriptorsRange(svcs, start_handle, end_handle) ==
    LET InRange(descriptor) ==
            descriptor.handle >= start_handle /\ descriptor.handle <= end_handle
        OfService(service) ==
            Flatten([j \in 1..Len(service.characteristics) |->
                        SelectSeq(service.characteristics[j].descriptors, InRange)])
    IN  Flatten([i \in 1..Len(svcs) |-> OfService(svcs[i])])

-----------------------------------------------------------------------------
(* Bounds and inputs *)

\* connection handles the remote side can return
MaxConn == 2

Connections == 1..MaxConn

NEEDS_CACHE_CLEARED == {"GATT/CL/GAD/BV-01-C", "GATT/CL/GAD/BV-06-C"}

Tests == NEEDS_CACHE_CLEARED \cup {"GATT/CL/GAD/BV-02-C"}

NoTest == ""

T180D == <<"1","8","0","D">>
T180F == <<"1","8","0","F">>
T2A37 == <<"2","A","3","7">>
T2A19 == <<"2","A","1","9">>
T2902 == <<"2","9","0","2">>

\* a canonical 128-bit UUID string of the remote database
Uuid16(h) == <<"0","0","0","0">> \o h \o BaseTail

U180d == Uuid16(<<"1","8","0","d">>)
U180f == Uuid16(<<"1","8","0","f">>)
U1801 == Uuid16(<<"1","8","0","1">>)
U2a37 == Uuid16(<<"2","a","3","7">>)
U2a19 == Uuid16(<<"2","a","1","9">>)
U2902 == Uuid16(<<"2","9","0","2">>)

\* "%04X" of a handle below 16
Hex4(n) == <<"0", "0", "0", HexDigits[n + 1]>>

Q(token) == Quote \o token \o QuoteO

Sp == <<" ">>

Descriptor(h, u) == [handle |-> h, uuid |-> u]

Characteristic(h, u, ds) == [handle |-> h, uuid |-> u, descriptors |-> ds]

IncludedService(h, u) == [handle |-> h, uuid |-> u]

Service(u, h, incl, chars) ==
    [uuid |-> u, handle |-> h, included_services |-> incl, characteristics |-> chars]

\* the attribute databases the PTS can expose
LargeDatabase ==
    << Service(U180d, 1, <<IncludedService(5, U180f)>>,
               <<Characteristic(3, U2a37, <<Descriptor(4, U2902)>>)>>),
       Service(U180f, 5, <<>>,
               <<Characteristic(6, U2a19, <<>>)>>),
       \* a second instance of the first service
       Service(U180d, 7, <<>>,
               <<Characteristic(8, U2a19, <<>>)>>) >>

SmallDatabase ==
    << Service(U1801, 1, <<>>, <<Characteristic(3, U2a37, <<>>)>>) >>

Databases == {LargeDatabase, SmallDatabase}

\* the UUID lists a classic-transport discovery can return
SdpResults == {<<U1801>>, <<U180d, U180f>>}

NoDescription == <<>>

T0010 == <<"0","0","1","0">>

\* a 128-bit UUID as the PTS writes it, in eight groups of four
T128 == <<"0","0","0","0","-","1","8","0","F","-","0","0","0","0","-","1","0","0","0","-",
          "8","0","0","0","-","0","0","8","0","-","5","F","9","B","-","3","4","F","B">>

UuidEq == <<" ","U","U","I","D"," ","="," ">>

\* The descriptions the PTS sends with each prompt: the placeholders of the
\* prompt's phrasing template filled in (the text between them shortened),
\* and descriptions that lack tokens the handler expects.
WriteDescriptions ==
    { Q(Hex4(3)) \o <<" ","a","n","d"," ","s","i","z","e"," ","="," ","'","2","'">>,
      NoDescription }

UuidDescriptions == { Q(T180D), NoDescription }

Uuid128Descriptions == { Q(T128), NoDescription }

ConfirmServiceDescriptions ==
    { Q(T180D) \o Sp \o Q(T180F), Q(T180D), NoDescription }

\* one group of four tokens of the include-service prompt
IncludeGroup(attribute, included, end, uuid) ==
    Q(Hex4(attribute)) \o Sp \o Q(Hex4(included)) \o Sp \o Q(Hex4(end)) \o Sp \o Q(uuid)

IncludeDescriptions ==
    { IncludeGroup(2, 5, 6, T180F),
      IncludeGroup(2, 5, 6, T180F) \o Sp \o IncludeGroup(3, 5, 6, T180F),
      Q(Hex4(2)) \o Sp \o Q(Hex4(5)),
      NoDescription }

ConfirmAllDescriptions == { Q(Hex4(2)), Q(Hex4(2)) \o Sp \o Q(Hex4(5)), NoDescription }

UuidRangeDescriptions ==
    { Q(Hex4(1)) \o Sp \o Q(Hex4(6)) \o UuidEq \o <<"0","x">> \o T2A37 \o QuoteO,
      Q(Hex4(1)) \o Sp \o Q(Hex4(6)) \o UuidEq \o T2A19 \o QuoteO,
      Q(Hex4(1)) \o UuidEq \o <<"0","x">> \o T2A37 \o QuoteO,
      NoDescription }

ConfirmCharacteristicDescriptions ==
    { Q(Hex4(3)) \o Sp \o Q(T2A37), Q(Hex4(6)) \o Sp \o Q(T2A37),
      Q(T0010) \o Sp \o Q(T2A37), Q(Hex4(3)), NoDescription }

DescriptorRangeDescriptions ==
    { Q(Hex4(1)) \o Sp \o Q(Hex4(6)), Q(Hex4(5)) \o Sp \o Q(Hex4(6)), Q(Hex4(1)),
      NoDescription }

ConfirmDescriptorDescriptions ==
    { Q(Hex4(4)) \o <<" ","U","U","I","D","=","0","x">> \o T2902 \o <<" "," ">>,
      NoDescription }

SdpDescriptions ==
    { Q(T180D), IncludeGroup(2, 5, 6, T180F), NoDescription }

AllDescriptions ==
    UNION { WriteDescriptions, UuidDescriptions, Uuid128Descriptions,
            ConfirmServiceDescriptions, IncludeDescriptions, ConfirmAllDescriptions,
            UuidRangeDescriptions, ConfirmCharacteristicDescriptions,
            DescriptorRangeDescriptions, ConfirmDescriptorDescriptions,
            SdpDescriptions }

\* What the handlers' patterns extract from each description.  The handlers
\* read their extractions from this table: an extraction depends on the
\* description only, so it is computed once per description.
Extracted ==
    [d \in AllDescriptions |->
        [hex |-> FindHexTokens(d),
         hexDash |-> FindHexDashTokens(d),
         ox |-> Find0xTokens(d),
         write |-> FindWriteTokens(d),
         uuidEq |-> SearchUuidEq(d),
         uuid0x |-> SearchUuid0x(d)]]

AllTokens ==
    UNION { Range(Extracted[d].hex) \cup Range(Extracted[d].hexDash)
                \cup Range(Extracted[d].ox)
                \cup UNION {Range(w) : w \in Range(Extracted[d].write)}
                \cup {Extracted[d].uuidEq.group, Extracted[d].uuid0x.group}
            : d \in AllDescriptions }

\* The conversions of each extracted token, likewise computed once per
\* token: int(token, 16), int(token), and the three module-level helpers.
Converted ==
    [token \in AllTokens |->
        [int16 |-> IntBase16(token),
         int10 |-> IntBase10(token),
         handle |-> stringHandleToInt(token),
         charHandle |-> stringCharHandleToInt(token),
         uuid |-> formatUuid(token)]]

-----------------------------------------------------------------------------
(* Session state *)

None == [kind |-> "None", val |-> <<>>]

NoConnection == [kind |-> "None", val |-> 0]

Conn(c) == [kind |-> "Conn", val |-> c]

\* a list of Service messages
ServiceList(l) == [kind |-> "Services", val |-> l]

\* a list of str (service_uuids of the classic-transport discovery)
UuidList(l) == [kind |-> "Uuids", val |-> l]

CharacteristicList(l) == [kind |-> "Characteristics", val |-> l]

DescriptorList(l) == [kind |-> "Descriptors", val |-> l]

IsNone(x) == x.kind = "None"

\* the outcome of an invocation that raised: no verdict
FAIL == "FAIL"

\* a remote call: its name, the connection it was given, what came back
Rpc(op, on, out) == [op |-> op, on |-> on, out |-> out]

Raised == [kind |-> "Raised", val |-> 0]

Returned == [kind |-> "Returned", val |-> 0]

\* the invocation record: the prompt, the inputs it read, its outcome and
\* the remote calls it made
\* no helper function is applied on its own
NoCall == [fn |-> "", args |-> <<>>]

\* a call that has not returned
Pending == [done |-> FALSE, val |-> <<>>]

Done(mmi, d, t, r, log) ==
    /\ last' = mmi
    /\ description' = d
    /\ test' = t
    /\ ret' = r
    /\ rpcLog' = log
    /\ UNCHANGED <<call, result>>

\* the proxy after construction
Constructed ==
    /\ connection = NoConnection
    /\ services = None
    /\ characteristics = None
    /\ descriptors = None
    /\ last = "__init__"
    /\ description = NoDescription
    /\ test = NoTest
    /\ ret = FAIL
    /\ rpcLog = <<>>

Init ==
    /\ Constructed
    /\ call = NoCall
    /\ result = Pending

-----------------------------------------------------------------------------
(* Handlers *)

\* The outcome of a remote call is chosen where the call is made: RpcOk is
\* the set of outcomes (returned or raised) of one call.
RpcOk == BOOLEAN

\* variant: the allow-list lookup misses the second test case
MMI_IUT_INITIATE_CONNECTION_first(t) ==
    \E connectOk \in RpcOk :
        IF ~connectOk
        THEN /\ UNCHANGED state
             /\ Done("MMI_IUT_INITIATE_CONNECTION", NoDescription, t, FAIL,
                     <<Rpc("ConnectLE", NoConnection, Raised)>>)
        ELSE \E c \in Connections :
            /\ connection' = Conn(c)
            /\ UNCHANGED <<services, characteristics, descriptors>>
            /\ IF t = "GATT/CL/GAD/BV-01-C"
               THEN \E clearOk \in RpcOk :
                        Done("MMI_IUT_INITIATE_CONNECTION", NoDescription, t,
                             IF clearOk THEN "OK" ELSE FAIL,
                             <<Rpc("ConnectLE", NoConnection, Conn(c)),
                               Rpc("ClearCache", Conn(c),
                                   IF clearOk THEN Returned ELSE Raised)>>)
               ELSE Done("MMI_IUT_INITIATE_CONNECTION", NoDescription, t, "OK",
                         <<Rpc("ConnectLE", NoConnection, Conn(c))>>)

MMI_IUT_INITIATE_CONNECTION(t) ==
    \E connectOk \in RpcOk :
        IF ~connectOk
        THEN /\ UNCHANGED state
             /\ Done("MMI_IUT_INITIATE_CONNECTION", NoDescription, t, FAIL,
                     <<Rpc("ConnectLE", NoConnection, Raised)>>)
        ELSE \E c \in Connections :
            /\ connection' = Conn(c)
            /\ UNCHANGED <<services, characteristics, descriptors>>
            /\ IF t \in NEEDS_CACHE_CLEARED
               THEN \E clearOk \in RpcOk :
                        Done("MMI_IUT_INITIATE_CONNECTION", NoDescription, t,
                             IF clearOk THEN "OK" ELSE FAIL,
                             <<Rpc("ConnectLE", NoConnection, Conn(c)),
                               Rpc("ClearCache", Conn(c),
                                   IF clearOk THEN Returned ELSE Raised)>>)
               ELSE Done("MMI_IUT_INITIATE_CONNECTION", NoDescription, t, "OK",
                         <<Rpc("ConnectLE", NoConnection, Conn(c))>>)

\* variant: the descriptors cache is not reset
MMI_IUT_INITIATE_DISCONNECTION_keep ==
    IF IsNone(connection)
    THEN /\ UNCHANGED state
         /\ Done("MMI_IUT_INITIATE_DISCONNECTION", NoDescription, NoTest, FAIL, <<>>)
    ELSE \E rpcOk \in RpcOk :
        IF ~rpcOk
        THEN /\ UNCHANGED state
             /\ Done("MMI_IUT_INITIATE_DISCONNECTION", NoDescription, NoTest, FAIL,
                     <<Rpc("DisconnectLE", connection, Raised)>>)
        ELSE /\ connection' = NoConnection
             /\ services' = None
             /\ characteristics' = None
             /\ UNCHANGED descriptors
             /\ Done("MMI_IUT_INITIATE_DISCONNECTION", NoDescription, NoTest, "OK",
                     <<Rpc("DisconnectLE", connection, Returned)>>)

MMI_IUT_INITIATE_DISCONNECTION ==
    IF IsNone(connection)
    THEN /\ UNCHANGED state
         /\ Done("MMI_IUT_INITIATE_DISCONNECTION", NoDescription, NoTest, FAIL, <<>>)
    ELSE \E rpcOk \in RpcOk :
        IF ~rpcOk
        THEN /\ UNCHANGED state
             /\ Done("MMI_IUT_INITIATE_DISCONNECTION", NoDescription, NoTest, FAIL,
                     <<Rpc("DisconnectLE", connection, Raised)>>)
        ELSE /\ connection' = NoConnection
             /\ services' = None
             /\ characteristics' = None
             /\ descriptors' = None
             /\ Done("MMI_IUT_INITIATE_DISCONNECTION", NoDescription, NoTest, "OK",
                     <<Rpc("DisconnectLE", connection, Returned)>>)

\* variant: a failed exchange is taken for a lost link
MMI_IUT_MTU_EXCHANGE_drop ==
    IF IsNone(connection)
    THEN /\ UNCHANGED state
         /\ Done("MMI_IUT_MTU_EXCHANGE", NoDescription, NoTest, FAIL, <<>>)
    ELSE \E rpcOk \in RpcOk :
        /\ connection' = IF rpcOk THEN connection ELSE NoConnection
        /\ UNCHANGED <<services, characteristics, descriptors>>
        /\ Done("MMI_IUT_MTU_EXCHANGE", NoDescription, NoTest,
                IF rpcOk THEN "OK" ELSE FAIL,
                <<Rpc("ExchangeMTU", connection, IF rpcOk THEN Returned ELSE Raised)>>)

MMI_IUT_MTU_EXCHANGE ==
    /\ UNCHANGED state
    /\ IF IsNone(connection)
       THEN Done("MMI_IUT_MTU_EXCHANGE", NoDescription, NoTest, FAIL, <<>>)
       ELSE \E rpcOk \in RpcOk :
                Done("MMI_IUT_MTU_EXCHANGE", NoDescription, NoTest,
                     IF rpcOk THEN "OK" ELSE FAIL,
                     <<Rpc("ExchangeMTU", connection, IF rpcOk THEN Returned ELSE Raised)>>)

MMI_IUT_SEND_PREPARE_WRITE_REQUEST_VALID_SIZE(d) ==
    LET matches == Extracted[d].write
        handle == Converted[matches[1][1]].int16
        size == Converted[matches[1][2]].int10
    IN  /\ UNCHANGED state
        /\ IF IsNone(connection) \/ matches = <<>>
           THEN Done("MMI_IUT_SEND_PREPARE_WRITE_REQUEST_VALID_SIZE", d, NoTest, FAIL, <<>>)
           ELSE IF ~handle.ok \/ ~size.ok
           THEN Done("MMI_IUT_SEND_PREPARE_WRITE_REQUEST_VALID_SIZE", d, NoTest, FAIL, <<>>)
           ELSE \E rpcOk \in RpcOk :
                    Done("MMI_IUT_SEND_PREPARE_WRITE_REQUEST_VALID_SIZE", d, NoTest,
                         IF rpcOk THEN "OK" ELSE FAIL,
                         <<Rpc("WriteCharacteristicFromHandle", connection,
                               IF rpcOk THEN Returned ELSE Raised)>>)

\* the body shared by the two handlers that fetch the full service list
DiscoverAll(mmi) ==
    IF IsNone(connection)
    THEN /\ UNCHANGED state
         /\ Done(mmi, NoDescription, NoTest, FAIL, <<>>)
    ELSE \E rpcOk \in RpcOk :
        IF ~rpcOk
        THEN /\ UNCHANGED state
             /\ Done(mmi, NoDescription, NoTest, FAIL,
                     <<Rpc("DiscoverServices", connection, Raised)>>)
        ELSE \E db \in Databases :
             /\ services' = ServiceList(db)
             /\ UNCHANGED <<connection, characteristics, descriptors>>
             /\ Done(mmi, NoDescription, NoTest, "OK",
                     <<Rpc("DiscoverServices", connection, Returned)>>)

MMI_IUT_DISCOVER_PRIMARY_SERVICES ==
    DiscoverAll("MMI_IUT_DISCOVER_PRIMARY_SERVICES")

\* the body shared by the two discover-by-UUID handlers, which differ in
\* the pattern that extracts the token; the remote side answers with the
\* services of its database that have the UUID
DiscoverByUuid(mmi, d, tokens) ==
    LET uuid == Converted[tokens[1]].uuid
        HasUuid(service) == service.uuid = uuid
    IN  IF IsNone(connection) \/ tokens = <<>>
        THEN /\ UNCHANGED state
             /\ Done(mmi, d, NoTest, FAIL, <<>>)
        ELSE \E rpcOk \in RpcOk :
            IF ~rpcOk
            THEN /\ UNCHANGED state
                 /\ Done(mmi, d, NoTest, FAIL,
                         <<Rpc("DiscoverServiceByUuid", connection, Raised)>>)
            ELSE \E db \in Databases :
                 /\ services' = ServiceList(SelectSeq(db, HasUuid))
                 /\ UNCHANGED <<connection, characteristics, descriptors>>
                 /\ Done(mmi, d, NoTest, "OK",
                         <<Rpc("DiscoverServiceByUuid", connection, Returned)>>)

MMI_SEND_PRIMARY_SERVICE_UUID(d) ==
    DiscoverByUuid("MMI_SEND_PRIMARY_SERVICE_UUID", d, Extracted[d].hex)

MMI_SEND_PRIMARY_SERVICE_UUID_128(d) ==
    DiscoverByUuid("MMI_SEND_PRIMARY_SERVICE_UUID_128", d, Extracted[d].hexDash)

MMI_CONFIRM_PRIMARY_SERVICE_UUID ==
    /\ UNCHANGED state
    /\ Done("MMI_CONFIRM_PRIMARY_SERVICE_UUID", NoDescription, NoTest, "Yes", <<>>)

MMI_CONFIRM_NO_PRIMARY_SERVICE_SMALL ==
    /\ UNCHANGED state
    /\ Done("MMI_CONFIRM_NO_PRIMARY_SERVICE_SMALL", NoDescription, NoTest, "Yes", <<>>)

\* variant: the stub answers only once services are cached
MMI_CONFIRM_PRIMARY_SERVICE_UUID_128_checked ==
    /\ UNCHANGED state
    /\ Done("MMI_CONFIRM_PRIMARY_SERVICE_UUID_128", NoDescription, NoTest,
            IF IsNone(services) THEN FAIL ELSE "Yes", <<>>)

MMI_CONFIRM_PRIMARY_SERVICE_UUID_128 ==
    /\ UNCHANGED state
    /\ Done("MMI_CONFIRM_PRIMARY_SERVICE_UUID_128", NoDescription, NoTest, "Yes", <<>>)

\* list(map(lambda service: service.uuid, self.services)): a str element has
\* no attribute uuid
MapUuid(svcs) ==
    IF svcs.kind = "Services"
    THEN Value([i \in 1..Len(svcs.val) |-> svcs.val[i].uuid])
    ELSE IF svcs.val = <<>> THEN Value(<<>>) ELSE Raise

\* variant: any() in place of all()
MMI_CONFIRM_PRIMARY_SERVICE_any(d) ==
    LET all_matches == [i \in 1..Len(Extracted[d].hex) |-> Converted[Extracted[d].hex[i]].uuid]
        uuids == MapUuid(services)
    IN  /\ UNCHANGED state
        /\ IF IsNone(services)
           THEN Done("MMI_CONFIRM_PRIMARY_SERVICE", d, NoTest, FAIL, <<>>)
           ELSE IF all_matches = <<>>
           THEN Done("MMI_CONFIRM_PRIMARY_SERVICE", d, NoTest, "OK", <<>>)
           ELSE IF ~uuids.ok
           THEN Done("MMI_CONFIRM_PRIMARY_SERVICE", d, NoTest, FAIL, <<>>)
           ELSE Done("MMI_CONFIRM_PRIMARY_SERVICE", d, NoTest,
                     IF \E i \in 1..Len(all_matches) : all_matches[i] \in Range(uuids.val)
                     THEN "OK" ELSE FAIL, <<>>)

MMI_CONFIRM_PRIMARY_SERVICE(d) ==
    LET all_matches == [i \in 1..Len(Extracted[d].hex) |-> Converted[Extracted[d].hex[i]].uuid]
        uuids == MapUuid(services)
    IN  /\ UNCHANGED state
        /\ IF IsNone(services)
           THEN Done("MMI_CONFIRM_PRIMARY_SERVICE", d, NoTest, FAIL, <<>>)
           ELSE IF all_matches = <<>>
           THEN Done("MMI_CONFIRM_PRIMARY_SERVICE", d, NoTest, "OK", <<>>)
           ELSE IF ~uuids.ok
           THEN Done("MMI_CONFIRM_PRIMARY_SERVICE", d, NoTest, FAIL, <<>>)
           ELSE Done("MMI_CONFIRM_PRIMARY_SERVICE", d, NoTest,
                     IF \A i \in 1..Len(all_matches) : all_matches[i] \in Range(uuids.val)
                     THEN "OK" ELSE FAIL, <<>>)

MMI_IUT_FIND_INCLUDED_SERVICES ==
    DiscoverAll("MMI_IUT_FIND_INCLUDED_SERVICES")

\* variant: the assertion on self.services is missing, and the loop over
\* None raises nothing
MMI_CONFIRM_NO_INCLUDE_SERVICE_unchecked ==
    /\ UNCHANGED state
    /\ IF IsNone(connection)
       THEN Done("MMI_CONFIRM_NO_INCLUDE_SERVICE", NoDescription, NoTest, FAIL, <<>>)
       ELSE IF services.kind # "Services"
       THEN Done("MMI_CONFIRM_NO_INCLUDE_SERVICE", NoDescription, NoTest,
                 IF services.val = <<>> THEN "OK" ELSE FAIL, <<>>)
       ELSE Done("MMI_CONFIRM_NO_INCLUDE_SERVICE", NoDescription, NoTest,
                 IF \A i \in 1..Len(services.val) :
                        Len(services.val[i].included_services) = 0
                 THEN "OK" ELSE FAIL, <<>>)

MMI_CONFIRM_NO_INCLUDE_SERVICE ==
    /\ UNCHANGED state
    /\ IF IsNone(connection) \/ IsNone(services)
       THEN Done("MMI_CONFIRM_NO_INCLUDE_SERVICE", NoDescription, NoTest, FAIL, <<>>)
       ELSE IF services.kind # "Services"
       THEN \* the first str element has no attribute included_services
            Done("MMI_CONFIRM_NO_INCLUDE_SERVICE", NoDescription, NoTest,
                 IF services.val = <<>> THEN "OK" ELSE FAIL, <<>>)
       ELSE Done("MMI_CONFIRM_NO_INCLUDE_SERVICE", NoDescription, NoTest,
                 IF \A i \in 1..Len(services.val) :
                        Len(services.val[i].included_services) = 0
                 THEN "OK" ELSE FAIL, <<>>)

\* the groups of four tokens, by the index of their first token (from 1)
Groups(all_matches) == {i \in 1..Len(all_matches) : i % 4 = 1}

\* variant: one matching pair is enough, whatever the number of groups
MMI_CONFIRM_INCLUDE_SERVICE_some(d) ==
    LET all_matches == Extracted[d].hex
        ArgsOk(i) == /\ i + 3 <= Len(all_matches)
                     /\ Converted[all_matches[i]].handle.ok
                     /\ Converted[all_matches[i + 1]].handle.ok
        Found(k, i) == compareIncludedServices(services.val[k],
                           Converted[all_matches[i]].handle.val,
                           Converted[all_matches[i + 1]].handle.val,
                           Converted[all_matches[i + 3]].uuid)
        found_services == Cardinality({p \in (1..Len(services.val)) \X Groups(all_matches) :
                                          Found(p[1], p[2])})
    IN  /\ UNCHANGED state
        /\ IF IsNone(connection) \/ IsNone(services)
           THEN Done("MMI_CONFIRM_INCLUDE_SERVICE", d, NoTest, FAIL, <<>>)
           ELSE IF services.val = <<>> \/ all_matches = <<>>
           THEN Done("MMI_CONFIRM_INCLUDE_SERVICE", d, NoTest,
                     IF all_matches = <<>> THEN "OK" ELSE FAIL, <<>>)
           ELSE IF \E i \in Groups(all_matches) : ~ArgsOk(i)
           THEN Done("MMI_CONFIRM_INCLUDE_SERVICE", d, NoTest, FAIL, <<>>)
           ELSE IF services.kind # "Services"
           THEN Done("MMI_CONFIRM_INCLUDE_SERVICE", d, NoTest, FAIL, <<>>)
           ELSE Done("MMI_CONFIRM_INCLUDE_SERVICE", d, NoTest,
                     IF found_services >= 1 THEN "OK" ELSE FAIL, <<>>)

MMI_CONFIRM_INCLUDE_SERVICE(d) ==
    LET all_matches == Extracted[d].hex
        \* the arguments of the call are evaluated for every group
        ArgsOk(i) == /\ i + 3 <= Len(all_matches)
                     /\ Converted[all_matches[i]].handle.ok
                     /\ Converted[all_matches[i + 1]].handle.ok
        Found(k, i) == compareIncludedServices(services.val[k],
                           Converted[all_matches[i]].handle.val,
                           Converted[all_matches[i + 1]].handle.val,
                           Converted[all_matches[i + 3]].uuid)
        found_services == Cardinality({p \in (1..Len(services.val)) \X Groups(all_matches) :
                                          Found(p[1], p[2])})
    IN  /\ UNCHANGED state
        /\ IF IsNone(connection) \/ IsNone(services)
           THEN Done("MMI_CONFIRM_INCLUDE_SERVICE", d, NoTest, FAIL, <<>>)
           ELSE IF services.val = <<>> \/ all_matches = <<>>
           THEN \* no call is made and found_services stays 0
                Done("MMI_CONFIRM_INCLUDE_SERVICE", d, NoTest,
                     IF all_matches = <<>> THEN "OK" ELSE FAIL, <<>>)
           ELSE IF \E i \in Groups(all_matches) : ~ArgsOk(i)
           THEN Done("MMI_CONFIRM_INCLUDE_SERVICE", d, NoTest, FAIL, <<>>)
           ELSE IF services.kind # "Services"
           THEN \* a str element has no attribute included_services
                Done("MMI_CONFIRM_INCLUDE_SERVICE", d, NoTest, FAIL, <<>>)
           ELSE Done("MMI_CONFIRM_INCLUDE_SERVICE", d, NoTest,
                     IF found_services * 4 = Len(all_matches) THEN "OK" ELSE FAIL, <<>>)

\* variant: the characteristics of the last matching service are cached,
\* and the cache is left alone when no service matches
MMI_IUT_DISCOVER_SERVICE_UUID_last(d) ==
    LET tokens == Extracted[d].hex
        service_uuid == Converted[tokens[1]].uuid
        Matching(db) == {i \in 1..Len(db) : db[i].uuid = service_uuid}
        LastOf(db) == db[CHOOSE i \in Matching(db) : \A j \in Matching(db) : j <= i]
    IN  IF IsNone(connection) \/ tokens = <<>>
        THEN /\ UNCHANGED state
             /\ Done("MMI_IUT_DISCOVER_SERVICE_UUID", d, NoTest, FAIL, <<>>)
        ELSE \E rpcOk \in RpcOk :
            IF ~rpcOk
            THEN /\ UNCHANGED state
                 /\ Done("MMI_IUT_DISCOVER_SERVICE_UUID", d, NoTest, FAIL,
                         <<Rpc("DiscoverServices", connection, Raised)>>)
            ELSE \E db \in Databases :
                 /\ services' = ServiceList(db)
                 /\ characteristics' =
                        IF Matching(db) = {} THEN characteristics
                        ELSE CharacteristicList(LastOf(db).characteristics)
                 /\ UNCHANGED <<connection, descriptors>>
                 /\ Done("MMI_IUT_DISCOVER_SERVICE_UUID", d, NoTest, "OK",
                         <<Rpc("DiscoverServices", connection, Returned)>>)

MMI_IUT_DISCOVER_SERVICE_UUID(d) ==
    LET tokens == Extracted[d].hex
        service_uuid == Converted[tokens[1]].uuid
    IN  IF IsNone(connection) \/ tokens = <<>>
        THEN /\ UNCHANGED state
             /\ Done("MMI_IUT_DISCOVER_SERVICE_UUID", d, NoTest, FAIL, <<>>)
        ELSE \E rpcOk \in RpcOk :
            IF ~rpcOk
            THEN /\ UNCHANGED state
                 /\ Done("MMI_IUT_DISCOVER_SERVICE_UUID", d, NoTest, FAIL,
                         <<Rpc("DiscoverServices", connection, Raised)>>)
            ELSE \E db \in Databases :
                 /\ services' = ServiceList(db)
                 /\ characteristics' =
                        CharacteristicList(getCharacteristicsForServiceUuid(db, service_uuid))
                 /\ UNCHANGED <<connection, descriptors>>
                 /\ Done("MMI_IUT_DISCOVER_SERVICE_UUID", d, NoTest, "OK",
                         <<Rpc("DiscoverServices", connection, Returned)>>)

\* list(map(lambda x: x.handle, l))
MapHandle(l) == {l[i].handle : i \in 1..Len(l)}

\* variant: the handles are compared as the PTS wrote them
MMI_CONFIRM_ALL_CHARACTERISTICS_SERVICE_raw(d) ==
    LET tokens == Extracted[d].hex
        all_matches == [i \in 1..Len(tokens) |-> Converted[tokens[i]].handle]
    IN  /\ UNCHANGED state
        /\ IF IsNone(characteristics)
           THEN Done("MMI_CONFIRM_ALL_CHARACTERISTICS_SERVICE", d, NoTest, FAIL, <<>>)
           ELSE IF \E i \in 1..Len(tokens) : ~all_matches[i].ok
           THEN Done("MMI_CONFIRM_ALL_CHARACTERISTICS_SERVICE", d, NoTest, FAIL, <<>>)
           ELSE Done("MMI_CONFIRM_ALL_CHARACTERISTICS_SERVICE", d, NoTest,
                     IF \A i \in 1..Len(tokens) :
                            all_matches[i].val \in MapHandle(characteristics.val)
                     THEN "Yes" ELSE FAIL, <<>>)

MMI_CONFIRM_ALL_CHARACTERISTICS_SERVICE(d) ==
    LET tokens == Extracted[d].hex
        all_matches == [i \in 1..Len(tokens) |-> Converted[tokens[i]].charHandle]
    IN  /\ UNCHANGED state
        /\ IF IsNone(characteristics)
           THEN Done("MMI_CONFIRM_ALL_CHARACTERISTICS_SERVICE", d, NoTest, FAIL, <<>>)
           ELSE IF \E i \in 1..Len(tokens) : ~all_matches[i].ok
           THEN Done("MMI_CONFIRM_ALL_CHARACTERISTICS_SERVICE", d, NoTest, FAIL, <<>>)
           ELSE Done("MMI_CONFIRM_ALL_CHARACTERISTICS_SERVICE", d, NoTest,
                     IF \A i \in 1..Len(tokens) :
                            all_matches[i].val \in MapHandle(characteristics.val)
                     THEN "Yes" ELSE FAIL, <<>>)

MMI_IUT_DISCOVER_SERVICE_UUID_RANGE(d) ==
    LET handles == Extracted[d].hex
        uuid_match == Extracted[d].ox
        uuid_search == Extracted[d].uuidEq
        uuid == IF uuid_match = <<>> THEN Converted[uuid_search.group].uuid
                ELSE Converted[uuid_match[1]].uuid
        \* the arguments of getCharacteristicsRange, evaluated after the
        \* assignment to self.services
        ArgsOk == /\ Len(handles) >= 2
                  /\ Converted[handles[1]].handle.ok
                  /\ Converted[handles[2]].handle.ok
    IN  IF IsNone(connection) \/ (uuid_match = <<>> /\ ~uuid_search.ok)
        THEN /\ UNCHANGED state
             /\ Done("MMI_IUT_DISCOVER_SERVICE_UUID_RANGE", d, NoTest, FAIL, <<>>)
        ELSE \E rpcOk \in RpcOk :
            IF ~rpcOk
            THEN /\ UNCHANGED state
                 /\ Done("MMI_IUT_DISCOVER_SERVICE_UUID_RANGE", d, NoTest, FAIL,
                         <<Rpc("DiscoverServices", connection, Raised)>>)
            ELSE \E db \in Databases :
                 /\ services' = ServiceList(db)
                 /\ characteristics' =
                        IF ArgsOk
                        THEN CharacteristicList(getCharacteristicsRange(db,
                                 Converted[handles[1]].handle.val,
                                 Converted[handles[2]].handle.val, uuid))
                        ELSE characteristics
                 /\ UNCHANGED <<connection, descriptors>>
                 /\ Done("MMI_IUT_DISCOVER_SERVICE_UUID_RANGE", d, NoTest,
                         IF ArgsOk THEN "OK" ELSE FAIL,
                         <<Rpc("DiscoverServices", connection, Returned)>>)

\* the loop of the two confirm handlers over a cached list: the tokens are
\* converted again for every element, handle first, and the UUID only when
\* the handle matched
RECURSIVE ConfirmLoop(_, _, _)
ConfirmLoop(l, i, all_matches) ==
    IF i > Len(l) THEN "No"
    ELSE IF all_matches = <<>> \/ ~Converted[all_matches[1]].handle.ok THEN FAIL
    ELSE IF l[i].handle # Converted[all_matches[1]].handle.val
    THEN ConfirmLoop(l, i + 1, all_matches)
    ELSE IF Len(all_matches) < 2 THEN FAIL
    ELSE IF l[i].uuid = Converted[all_matches[2]].uuid THEN "Yes"
    ELSE ConfirmLoop(l, i + 1, all_matches)

\* variant: the UUID is not compared
RECURSIVE ConfirmLoop_handle(_, _, _)
ConfirmLoop_handle(l, i, all_matches) ==
    IF i > Len(l) THEN "No"
    ELSE IF all_matches = <<>> \/ ~Converted[all_matches[1]].handle.ok THEN FAIL
    ELSE IF l[i].handle # Converted[all_matches[1]].handle.val
    THEN ConfirmLoop_handle(l, i + 1, all_matches)
    ELSE IF Len(all_matches) < 2 THEN FAIL
    ELSE "Yes"

MMI_CONFIRM_CHARACTERISTICS_handle(d) ==
    /\ UNCHANGED state
    /\ IF IsNone(characteristics)
       THEN Done("MMI_CONFIRM_CHARACTERISTICS", d, NoTest, FAIL, <<>>)
       ELSE Done("MMI_CONFIRM_CHARACTERISTICS", d, NoTest,
                 ConfirmLoop_handle(characteristics.val, 1, Extracted[d].hexDash), <<>>)

MMI_CONFIRM_CHARACTERISTICS(d) ==
    /\ UNCHANGED state
    /\ IF IsNone(characteristics)
       THEN Done("MMI_CONFIRM_CHARACTERISTICS", d, NoTest, FAIL, <<>>)
       ELSE Done("MMI_CONFIRM_CHARACTERISTICS", d, NoTest,
                 ConfirmLoop(characteristics.val, 1, Extracted[d].hexDash), <<>>)

MMI_CONFIRM_NO_CHARACTERISTICSUUID_SMALL ==
    /\ UNCHANGED state
    /\ IF IsNone(characteristics)
       THEN Done("MMI_CONFIRM_NO_CHARACTERISTICSUUID_SMALL", NoDescription, NoTest, FAIL, <<>>)
       ELSE Done("MMI_CONFIRM_NO_CHARACTERISTICSUUID_SMALL", NoDescription, NoTest,
                 IF Len(characteristics.val) = 0 THEN "OK" ELSE FAIL, <<>>)

\* variant: the fetched list is kept in a local and self.services is not
\* assigned
MMI_IUT_DISCOVER_DESCRIPTOR_RANGE_local(d) ==
    LET handles == Extracted[d].hex
        ArgsOk == /\ Len(handles) >= 2
                  /\ Converted[handles[1]].handle.ok
                  /\ Converted[handles[2]].handle.ok
    IN  IF IsNone(connection)
        THEN /\ UNCHANGED state
             /\ Done("MMI_IUT_DISCOVER_DESCRIPTOR_RANGE", d, NoTest, FAIL, <<>>)
        ELSE \E rpcOk \in RpcOk :
            IF ~rpcOk
            THEN /\ UNCHANGED state
                 /\ Done("MMI_IUT_DISCOVER_DESCRIPTOR_RANGE", d, NoTest, FAIL,
                         <<Rpc("DiscoverServices", connection, Raised)>>)
            ELSE \E db \in Databases :
                 /\ descriptors' =
                        IF ArgsOk
                        THEN DescriptorList(getDescriptorsRange(db,
                                 Converted[handles[1]].handle.val,
                                 Converted[handles[2]].handle.val))
                        ELSE descriptors
                 /\ UNCHANGED <<connection, services, characteristics>>
                 /\ Done("MMI_IUT_DISCOVER_DESCRIPTOR_RANGE", d, NoTest,
                         IF ArgsOk THEN "OK" ELSE FAIL,
                         <<Rpc("DiscoverServices", connection, Returned)>>)

MMI_IUT_DISCOVER_DESCRIPTOR_RANGE(d) ==
    LET handles == Extracted[d].hex
        \* the arguments of getDescriptorsRange, evaluated after the
        \* assignment to self.services
        ArgsOk == /\ Len(handles) >= 2
                  /\ Converted[handles[1]].handle.ok
                  /\ Converted[handles[2]].handle.ok
    IN  IF IsNone(connection)
        THEN /\ UNCHANGED state
             /\ Done("MMI_IUT_DISCOVER_DESCRIPTOR_RANGE", d, NoTest, FAIL, <<>>)
        ELSE \E rpcOk \in RpcOk :
            IF ~rpcOk
            THEN /\ UNCHANGED state
                 /\ Done("MMI_IUT_DISCOVER_DESCRIPTOR_RANGE", d, NoTest, FAIL,
                         <<Rpc("DiscoverServices", connection, Raised)>>)
            ELSE \E db \in Databases :
                 /\ services' = ServiceList(db)
                 /\ descriptors' =
                        IF ArgsOk
                        THEN DescriptorList(getDescriptorsRange(db,
                                 Converted[handles[1]].handle.val,
                                 Converted[handles[2]].handle.val))
                        ELSE descriptors
                 /\ UNCHANGED <<connection, characteristics>>
                 /\ Done("MMI_IUT_DISCOVER_DESCRIPTOR_RANGE", d, NoTest,
                         IF ArgsOk THEN "OK" ELSE FAIL,
                         <<Rpc("DiscoverServices", connection, Returned)>>)

MMI_CONFIRM_CHARACTERISTICS_DESCRIPTORS(d) ==
    LET tokens == Extracted[d].hex
        handle == Converted[tokens[1]].handle
        uuid_search == Extracted[d].uuid0x
        uuid == Converted[uuid_search.group].uuid
    IN  /\ UNCHANGED state
        /\ IF IsNone(descriptors) \/ tokens = <<>>
           THEN Done("MMI_CONFIRM_CHARACTERISTICS_DESCRIPTORS", d, NoTest, FAIL, <<>>)
           ELSE IF ~handle.ok \/ ~uuid_search.ok
           THEN Done("MMI_CONFIRM_CHARACTERISTICS_DESCRIPTORS", d, NoTest, FAIL, <<>>)
           ELSE Done("MMI_CONFIRM_CHARACTERISTICS_DESCRIPTORS", d, NoTest,
                     IF \E i \in 1..Len(descriptors.val) :
                            /\ descriptors.val[i].handle = handle.val
                            /\ descriptors.val[i].uuid = uuid
                     THEN "Yes" ELSE "No", <<>>)

MMI_IUT_DISCOVER_ALL_SERVICE_RECORD(d) ==
    LET uuid == formatUuidOfList(Extracted[d].hex)
    IN  IF ~uuid.ok
        THEN /\ UNCHANGED state
             /\ Done("MMI_IUT_DISCOVER_ALL_SERVICE_RECORD", d, NoTest, FAIL, <<>>)
        ELSE \E rpcOk \in RpcOk :
            IF ~rpcOk
            THEN /\ UNCHANGED state
                 /\ Done("MMI_IUT_DISCOVER_ALL_SERVICE_RECORD", d, NoTest, FAIL,
                         <<Rpc("DiscoverServicesSdp", NoConnection, Raised)>>)
            ELSE \E service_uuids \in SdpResults :
                 /\ services' = UuidList(service_uuids)
                 /\ UNCHANGED <<connection, characteristics, descriptors>>
                 /\ Done("MMI_IUT_DISCOVER_ALL_SERVICE_RECORD", d, NoTest,
                         IF \E i \in 1..Len(service_uuids) :
                                PyEq([type |-> "list", v |-> uuid.val],
                                     [type |-> "str", v |-> service_uuids[i]])
                         THEN "Yes" ELSE "No",
                         <<Rpc("DiscoverServicesSdp", NoConnection, Returned)>>)

-----------------------------------------------------------------------------

Next ==
    \/ \E t \in Tests : MMI_IUT_INITIATE_CONNECTION(t)
    \/ MMI_IUT_INITIATE_DISCONNECTION
    \/ MMI_IUT_MTU_EXCHANGE
    \/ \E d \in WriteDescriptions : MMI_IUT_SEND_PREPARE_WRITE_REQUEST_VALID_SIZE(d)
    \/ MMI_IUT_DISCOVER_PRIMARY_SERVICES
    \/ \E d \in UuidDescriptions : MMI_SEND_PRIMARY_SERVICE_UUID(d)
    \/ \E d \in Uuid128Descriptions : MMI_SEND_PRIMARY_SERVICE_UUID_128(d)
    \/ MMI_CONFIRM_PRIMARY_SERVICE_UUID
    \/ MMI_CONFIRM_NO_PRIMARY_SERVICE_SMALL
    \/ MMI_CONFIRM_PRIMARY_SERVICE_UUID_128
    \/ \E d \in ConfirmServiceDescriptions : MMI_CONFIRM_PRIMARY_SERVICE(d)
    \/ MMI_IUT_FIND_INCLUDED_SERVICES
    \/ MMI_CONFIRM_NO_INCLUDE_SERVICE
    \/ \E d \in IncludeDescriptions : MMI_CONFIRM_INCLUDE_SERVICE(d)
    \/ \E d \in UuidDescriptions : MMI_IUT_DISCOVER_SERVICE_UUID(d)
    \/ \E d \in ConfirmAllDescriptions : MMI_CONFIRM_ALL_CHARACTERISTICS_SERVICE(d)
    \/ \E d \in UuidRangeDescriptions : MMI_IUT_DISCOVER_SERVICE_UUID_RANGE(d)
    \/ \E d \in ConfirmCharacteristicDescriptions : MMI_CONFIRM_CHARACTERISTICS(d)
    \/ MMI_CONFIRM_NO_CHARACTERISTICSUUID_SMALL
    \/ \E d \in DescriptorRangeDescriptions : MMI_IUT_DISCOVER_DESCRIPTOR_RANGE(d)
    \/ \E d \in ConfirmDescriptorDescriptions : MMI_CONFIRM_CHARACTERISTICS_DESCRIPTORS(d)
    \/ \E d \in SdpDescriptions : MMI_IUT_DISCOVER_ALL_SERVICE_RECORD(d)

Spec == Init /\ [][Next]_vars

-----------------------------------------------------------------------------
(* The helper functions applied on their own *)

\* the largest handle of the inputs
MaxHandle == 9

Handles == 0..MaxHandle

\* the largest number of included services of a service of the inputs
MaxIncluded == 2

\* a hexadecimal digit in upper case, one in lower case, a digit, the
\* placeholder of common_uuid and the dash
Alphabet == {"D", "f", "0", "X", "-"}

\* the strings of n characters of the alphabet
Strings(n) == [1..n -> Alphabet]

\* s with the character at position i (from 1) replaced by c
Subst(s, i, c) == [s EXCEPT ![i] = c]

Dashes(n) == [i \in 1..n |-> "-"]

\* a 128-bit UUID as the PTS writes it without dashes
Base32 == <<"0","0","0","0","1","8","0","D","0","0","0","0","1","0","0","0",
            "8","0","0","0","0","0","8","0","5","F","9","B","3","4","F","B">>

\* 39 characters that are a 128-bit UUID in five groups followed by three
\* more characters: four dashes only
Long39 == <<"0","0","0","0","1","8","0","D","-","0","0","0","0","-","1","0","0","0","-",
            "8","0","0","0","-","0","0","8","0","5","F","9","B","3","4","F","B",
            "A","B","C">>

\* the inputs of formatUuid: every string of at most four characters of
\* the alphabet, the 32-character and 39-character forms of the PTS with
\* one character replaced by a dash or by a letter of the other case, the
\* same lengths with the dashes elsewhere or too many, and canonical UUIDs
UuidInputs ==
    UNION { Strings(n) : n \in 0..4 }
        \cup {T180D, T180F, T2A37, T2902}
        \cup {Base32, T128, Long39, Dashes(32), Dashes(39),
              SubSeq(Base32, 1, 12) \o Dashes(20), Dashes(7) \o Base32,
              Dashes(7) \o SubSeq(Base32, 1, 28) \o Dashes(4)}
        \cup {Subst(Base32, i, c) : i \in 1..32, c \in {"-", "a", "F"}}
        \cup {Subst(T128, i, c) : i \in 1..39, c \in {"-", "a", "F"}}
        \cup {U180d, U2a37, Lower(T128)}

\* a service tree whose handles are not in ascending order, with
\* characteristics of one UUID in two services
MixedDatabase ==
    << Service(U180d, 1, <<>>,
               << Characteristic(6, U2a37, <<Descriptor(7, U2902), Descriptor(2, U2902)>>),
                  Characteristic(3, U2a37, <<>>) >>),
       Service(U180f, 4, <<>>,
               << Characteristic(5, U2a37, <<Descriptor(9, U2902)>>),
                  Characteristic(8, U2a19, <<Descriptor(1, U2902)>>) >>) >>

\* the service trees given to the range functions
Trees == Databases \cup {MixedDatabase, <<>>}

IncludedInputs == {IncludedService(h, u) : h \in {5, 7}, u \in {U180f, U180d}}

\* the services given to compareIncludedServices: up to MaxIncluded
\* included services
ServiceInputs ==
    { Service(U180d, h, incl, <<>>) :
        h \in {1, 2}, incl \in UNION {[1..n -> IncludedInputs] : n \in 0..MaxIncluded} }

Call(fn, args) == [fn |-> fn, args |-> args]

Calls ==
    {Call("formatUuid", <<uuid>>) : uuid \in UuidInputs}
    \cup {Call("compareIncludedServices", <<service, service_handle, included_handle, U180f>>) :
            service \in ServiceInputs, service_handle \in Handles, included_handle \in {5, 7}}
    \cup {Call("getCharacteristicsRange", <<tree, start_handle, end_handle, uuid>>) :
            tree \in Trees, start_handle \in Handles, end_handle \in Handles,
            uuid \in {U2a37, U2a19}}
    \cup {Call("getDescriptorsRange", <<tree, start_handle, end_handle>>) :
            tree \in Trees, start_handle \in Handles, end_handle \in Handles}

Return(v) ==
    /\ result' = [done |-> TRUE, val |-> v]
    /\ UNCHANGED <<connection, services, characteristics, descriptors,
                   last, description, test, ret, rpcLog, call>>

HelperInit ==
    /\ Constructed
    /\ call \in Calls
    /\ result = Pending

Apply_formatUuid ==
    /\ call.fn = "formatUuid"
    /\ ~result.done
    /\ Return(formatUuid(call.args[1]))

\* formatUuid applied to what formatUuid returned
Apply_formatUuid_again ==
    /\ call.fn = "formatUuid"
    /\ result.done
    /\ call' = Call("formatUuid", <<result.val>>)
    /\ result' = [done |-> TRUE, val |-> formatUuid(result.val)]
    /\ UNCHANGED <<connection, services, characteristics, descriptors,
                   last, description, test, ret, rpcLog>>

Apply_compareIncludedServices ==
    /\ call.fn = "compareIncludedServices"
    /\ ~result.done
    /\ Return(compareIncludedServices(call.args[1], call.args[2], call.args[3], call.args[4]))

Apply_getCharacteristicsRange ==
    /\ call.fn = "getCharacteristicsRange"
    /\ ~result.done
    /\ Return(getCharacteristicsRange(call.args[1], call.args[2], call.args[3], call.args[4]))

Apply_getDescriptorsRange ==
    /\ call.fn = "getDescriptorsRange"
    /\ ~result.done
    /\ Return(getDescriptorsRange(call.args[1], call.args[2], call.args[3]))

HelperNext ==
    \/ Apply_formatUuid
    \/ Apply_formatUuid_again
    \/ Apply_compareIncludedServices
    \/ Apply_getCharacteristicsRange
    \/ Apply_getDescriptorsRange

HelperSpec == HelperInit /\ [][HelperNext]_vars

-----------------------------------------------------------------------------
(* Properties *)

CONNECT == "MMI_IUT_INITIATE_CONNECTION"

DISCONNECT == "MMI_IUT_INITIATE_DISCONNECTION"

Verdicts == {"OK", "Yes", "No"}

\* the tokens the last invocation extracted with '([a0-Z9]*)'O
LastHex == Extracted[description].hex

\* C1: when the disconnect handler is invoked with a connection present and
\* DisconnectLE returns, the verdict is "OK" and connection, services,
\* characteristics and descriptors are all None afterwards, whatever they
\* held before.
C1_DisconnectClears ==
    [][ ( /\ last' = DISCONNECT
          /\ ~IsNone(connection)
          /\ rpcLog' = <<Rpc("DisconnectLE", connection, Returned)>> )
        => ( /\ ret' = "OK"
             /\ connection' = NoConnection
             /\ services' = None
             /\ characteristics' = None
             /\ descriptors' = None ) ]_vars

\* a disconnect that returned "OK" after closing a present connection
C1_Witness ==
    /\ last = DISCONNECT
    /\ ret = "OK"
    /\ rpcLog = <<Rpc("DisconnectLE", Conn(1), Returned)>>
    /\ IsNone(descriptors)

NeedsConnection ==
    { DISCONNECT, "MMI_IUT_MTU_EXCHANGE",
      "MMI_IUT_SEND_PREPARE_WRITE_REQUEST_VALID_SIZE",
      "MMI_IUT_DISCOVER_PRIMARY_SERVICES", "MMI_SEND_PRIMARY_SERVICE_UUID",
      "MMI_SEND_PRIMARY_SERVICE_UUID_128", "MMI_IUT_FIND_INCLUDED_SERVICES",
      "MMI_CONFIRM_NO_INCLUDE_SERVICE", "MMI_CONFIRM_INCLUDE_SERVICE",
      "MMI_IUT_DISCOVER_SERVICE_UUID", "MMI_IUT_DISCOVER_SERVICE_UUID_RANGE",
      "MMI_IUT_DISCOVER_DESCRIPTOR_RANGE" }

NeedsServices ==
    { "MMI_CONFIRM_PRIMARY_SERVICE", "MMI_CONFIRM_NO_INCLUDE_SERVICE",
      "MMI_CONFIRM_INCLUDE_SERVICE" }

NeedsCharacteristics ==
    { "MMI_CONFIRM_ALL_CHARACTERISTICS_SERVICE", "MMI_CONFIRM_CHARACTERISTICS",
      "MMI_CONFIRM_NO_CHARACTERISTICSUUID_SMALL" }

NeedsDescriptors == { "MMI_CONFIRM_CHARACTERISTICS_DESCRIPTORS" }

\* C2: the outcome of every invocation is one of "OK", "Yes", "No" or a
\* failure without verdict, and a handler that needs the connection, the
\* cached services, the cached characteristics or the cached descriptors
\* fails when invoked with that field None.
C2_VerdictOrFail ==
    [][ /\ ret' \in Verdicts \cup {FAIL}
        /\ (last' \in NeedsConnection /\ IsNone(connection)) => ret' = FAIL
        /\ (last' \in NeedsServices /\ IsNone(services)) => ret' = FAIL
        /\ (last' \in NeedsCharacteristics /\ IsNone(characteristics)) => ret' = FAIL
        /\ (last' \in NeedsDescriptors /\ IsNone(descriptors)) => ret' = FAIL ]_vars

\* a handler that needs two fields failed with the connection present and
\* the services absent
C2_Witness ==
    /\ last = "MMI_CONFIRM_NO_INCLUDE_SERVICE"
    /\ ret = FAIL
    /\ ~IsNone(connection)
    /\ IsNone(services)

\* the characteristics of the services of a snapshot
CharacteristicsOf(svcs) ==
    IF svcs.kind = "Services"
    THEN UNION {Range(svcs.val[i].characteristics) : i \in 1..Len(svcs.val)}
    ELSE {}

\* the descriptors of the characteristics of the services of a snapshot
DescriptorsOf(svcs) ==
    UNION {Range(c.descriptors) : c \in CharacteristicsOf(svcs)}

\* C3 as claimed: in every reachable state a present characteristics cache
\* holds only characteristics of the current services, and a present
\* descriptors cache only descriptors of the current services.
C3_CachesFollowServices ==
    /\ ~IsNone(characteristics) => Range(characteristics.val) \subseteq CharacteristicsOf(services)
    /\ ~IsNone(descriptors) => Range(descriptors.val) \subseteq DescriptorsOf(services)

\* C3 amended: a cache holds only entries of the services snapshot right
\* after the handler that derived it returned "OK" (the two characteristic
\* discoveries for characteristics, the descriptor discovery for
\* descriptors); a later handler that replaces services leaves the caches
\* as they were.
C3_DerivedFromFetched ==
    /\ ( /\ last \in {"MMI_IUT_DISCOVER_SERVICE_UUID", "MMI_IUT_DISCOVER_SERVICE_UUID_RANGE"}
         /\ ret = "OK" )
       => ( /\ ~IsNone(characteristics)
            /\ Range(characteristics.val) \subseteq CharacteristicsOf(services) )
    /\ (last = "MMI_IUT_DISCOVER_DESCRIPTOR_RANGE" /\ ret = "OK")
       => ( /\ ~IsNone(descriptors)
            /\ Range(descriptors.val) \subseteq DescriptorsOf(services) )

\* a descriptor discovery that cached a descriptor of the fetched services
C3_Witness ==
    /\ last = "MMI_IUT_DISCOVER_DESCRIPTOR_RANGE"
    /\ ret = "OK"
    /\ descriptors = DescriptorList(<<Descriptor(4, U2902)>>)
    /\ services = ServiceList(LargeDatabase)

\* the uuid attributes of the cached Service messages (a cached str has none)
CachedServiceUuids ==
    IF services.kind = "Services"
    THEN {services.val[i].uuid : i \in 1..Len(services.val)}
    ELSE {}

\* C4: invoked with services cached, the confirm-primary-services handler
\* returns "OK" exactly when every token extracted from the description,
\* canonicalized, is the uuid of a cached service, and otherwise fails.
C4_ConfirmPrimaryService ==
    [][ (last' = "MMI_CONFIRM_PRIMARY_SERVICE" /\ ~IsNone(services))
        => LET tokens == Extracted[description'].hex
           IN  /\ ret' \in {"OK", FAIL}
               /\ ret' = "OK" <=> \A i \in 1..Len(tokens) :
                                      formatUuid(tokens[i]) \in CachedServiceUuids ]_vars

\* two tokens confirmed against the cached services
C4_Witness ==
    /\ last = "MMI_CONFIRM_PRIMARY_SERVICE"
    /\ ret = "OK"
    /\ Len(LastHex) = 2
    /\ services = ServiceList(LargeDatabase)

\* C5: invoked with a characteristics cache present and a description that
\* holds the handle token and the UUID token, the confirm-characteristic
\* handler returns "Yes" exactly when a cached characteristic has the
\* extracted handle and the canonicalized extracted UUID, and "No"
\* otherwise; no invocation of it changes the session state.
C5_ConfirmCharacteristics ==
    [][ last' = "MMI_CONFIRM_CHARACTERISTICS"
        => LET tokens == Extracted[description'].hexDash
           IN  /\ state' = state
               /\ ( /\ ~IsNone(characteristics)
                    /\ Len(tokens) >= 2
                    /\ stringHandleToInt(tokens[1]).ok )
                  => ( /\ ret' \in {"Yes", "No"}
                       /\ ret' = "Yes" <=>
                              \E c \in Range(characteristics.val) :
                                  /\ c.handle = stringHandleToInt(tokens[1]).val
                                  /\ c.uuid = formatUuid(tokens[2]) ) ]_vars

\* "No" for handle 0x10, which no cached characteristic has
C5_Witness ==
    /\ last = "MMI_CONFIRM_CHARACTERISTICS"
    /\ ret = "No"
    /\ description = Q(T0010) \o Sp \o Q(T2A37)
    /\ ~IsNone(characteristics)
    /\ characteristics.val # <<>>

\* C6: the classic-transport discovery handler returns "Yes" if the
\* canonicalized UUID token of the description is among the UUID strings the
\* discovery returned and "No" otherwise, with or without a connection.
C6_SdpVerdict ==
    ( /\ last = "MMI_IUT_DISCOVER_ALL_SERVICE_RECORD"
      /\ ret # FAIL
      /\ Len(LastHex) = 1 )
    => ( /\ ret \in {"Yes", "No"}
         /\ ret = "Yes" <=> formatUuid(LastHex[1]) \in Range(services.val) )

ServiceFields == {"uuid", "handle", "included_services", "characteristics"}

\* C7: in every reachable state services is None or a sequence of Service
\* records with the fields uuid, handle, included_services, characteristics.
C7_ServicesShape ==
    \/ IsNone(services)
    \/ /\ services.kind = "Services"
       /\ \A i \in 1..Len(services.val) : DOMAIN services.val[i] = ServiceFields

AllowList == {"GATT/CL/GAD/BV-01-C", "GATT/CL/GAD/BV-06-C"}

\* ClearCache was invoked once, after ConnectLE, on the connection now held
ClearedAfterConnect ==
    /\ Len(rpcLog) = 2
    /\ rpcLog[2].op = "ClearCache"
    /\ rpcLog[2].on = connection

\* C8 as claimed: the connect handler sets connection to the link ConnectLE
\* returned and always returns "OK"; it invokes ClearCache on the new
\* connection, after ConnectLE, exactly for the test cases of the allow-list.
C8_ConnectAlwaysOK ==
    last = CONNECT
    => ( /\ ret = "OK"
         /\ rpcLog[1].op = "ConnectLE"
         /\ connection = rpcLog[1].out
         /\ test \in AllowList <=> ClearedAfterConnect )

\* C8 amended: when ConnectLE returns a link the connect handler sets
\* connection to it and invokes ClearCache on the new connection, after
\* ConnectLE, exactly for the test cases of the allow-list; it returns "OK"
\* exactly when every remote call it made returned, and has no verdict when
\* ConnectLE or ClearCache raised (after ConnectLE raised, nothing else is
\* called and the connection is not set).
C8_Connect ==
    [][ last' = CONNECT
        => LET log == rpcLog'
           IN  /\ log[1].op = "ConnectLE"
               /\ ret' = "OK" <=> \A i \in 1..Len(log) : log[i].out # Raised
               /\ ret' \in {"OK", FAIL}
               /\ IF log[1].out = Raised
                  THEN Len(log) = 1 /\ connection' = connection
                  ELSE /\ log[1].out.kind = "Conn"
                       /\ connection' = log[1].out
                       /\ test' \in AllowList
                              <=> ( /\ Len(log) = 2
                                    /\ log[2].op = "ClearCache"
                                    /\ log[2].on = connection' )
                       /\ test' \notin AllowList => Len(log) = 1 ]_vars

\* a connect of the second allow-listed test case that cleared the cache
C8_Witness ==
    /\ last = CONNECT
    /\ ret = "OK"
    /\ test = "GATT/CL/GAD/BV-06-C"
    /\ ClearedAfterConnect
    /\ connection = rpcLog[1].out

\* C9: the connection changes only in the connect handler, which makes it
\* present, and in the disconnect handler, which makes it None; every other
\* invocation, successful or failed, leaves it as it was.
C9_ConnectionFrame ==
    [][ connection' # connection
        => \/ last' = CONNECT /\ connection'.kind = "Conn"
           \/ last' = DISCONNECT /\ connection' = NoConnection ]_vars

\* a discovery failed after its remote call and the connection is still held
C9_Witness ==
    /\ last = "MMI_IUT_DISCOVER_SERVICE_UUID_RANGE"
    /\ ret = FAIL
    /\ rpcLog = <<Rpc("DiscoverServices", Conn(1), Returned)>>
    /\ connection = Conn(1)

Stubs ==
    { "MMI_CONFIRM_PRIMARY_SERVICE_UUID", "MMI_CONFIRM_PRIMARY_SERVICE_UUID_128",
      "MMI_CONFIRM_NO_PRIMARY_SERVICE_SMALL" }

\* C10: the three confirm-by-UUID stubs return "Yes" from every state, make
\* no remote call and leave connection, services, characteristics and
\* descriptors unchanged.
C10_Stubs ==
    [][ last' \in Stubs
        => ( /\ ret' = "Yes"
             /\ rpcLog' = <<>>
             /\ connection' = connection
             /\ services' = services
             /\ characteristics' = characteristics
             /\ descriptors' = descriptors ) ]_vars

\* a stub answered "Yes" with no connection and nothing cached
C10_Witness ==
    /\ last = "MMI_CONFIRM_PRIMARY_SERVICE_UUID_128"
    /\ ret = "Yes"
    /\ IsNone(connection)
    /\ IsNone(services)
    /\ IsNone(characteristics)
    /\ IsNone(descriptors)

\* the pairs <<service index, first token of a complete group>> for which
\* the included-service match holds
IncludedMatches(svcs, tokens) ==
    IF svcs.kind # "Services" THEN {}
    ELSE { p \in (1..Len(svcs.val)) \X {g \in Groups(tokens) : g + 3 <= Len(tokens)} :
             compareIncludedServices(svcs.val[p[1]],
                                     stringHandleToInt(tokens[p[2]]).val,
                                     stringHandleToInt(tokens[p[2] + 1]).val,
                                     formatUuid(tokens[p[2] + 3])) }

\* C11: invoked with connection and services present, the
\* confirm-included-services handler returns "OK" exactly when the number of
\* pairs (cached service, group of four tokens) for which the
\* included-service match holds equals the number of tokens divided by four,
\* and otherwise fails; it leaves the session state as it was.
C11_ConfirmIncludeService ==
    [][ ( /\ last' = "MMI_CONFIRM_INCLUDE_SERVICE"
          /\ ~IsNone(connection)
          /\ ~IsNone(services) )
        => LET tokens == Extracted[description'].hex
           IN  /\ ret' \in {"OK", FAIL}
               /\ ret' = "OK" <=>
                      Cardinality(IncludedMatches(services, tokens)) * 4 = Len(tokens)
               /\ state' = state ]_vars

\* one group confirmed against the included service of the large database
C11_Witness ==
    /\ last = "MMI_CONFIRM_INCLUDE_SERVICE"
    /\ ret = "OK"
    /\ description = IncludeGroup(2, 5, 6, T180F)
    /\ services = ServiceList(LargeDatabase)
    /\ ~IsNone(connection)

\* C12: invoked with a characteristics cache present, the
\* confirm-all-characteristics handler returns "Yes" exactly when every
\* extracted token is a hexadecimal handle whose value plus one is the
\* handle of a cached characteristic, and otherwise fails; the adjusted
\* handle of a token is its hexadecimal value plus one.
C12_ConfirmAllCharacteristics ==
    [][ ( /\ last' = "MMI_CONFIRM_ALL_CHARACTERISTICS_SERVICE"
          /\ ~IsNone(characteristics) )
        => LET tokens == Extracted[description'].hex
               Adjusted(token) == stringHandleToInt(token).val + 1
           IN  /\ ret' \in {"Yes", FAIL}
               /\ ret' = "Yes" <=>
                      \A i \in 1..Len(tokens) :
                          /\ stringHandleToInt(tokens[i]).ok
                          /\ \E c \in Range(characteristics.val) :
                                 c.handle = Adjusted(tokens[i])
               /\ \A i \in 1..Len(tokens) :
                      stringHandleToInt(tokens[i]).ok
                      => stringCharHandleToInt(tokens[i]) = Value(Adjusted(tokens[i]))
               /\ state' = state ]_vars

\* token 0002 confirmed against the cached characteristic of handle 3
C12_Witness ==
    /\ last = "MMI_CONFIRM_ALL_CHARACTERISTICS_SERVICE"
    /\ ret = "Yes"
    /\ description = Q(Hex4(2))
    /\ characteristics = CharacteristicList(<<Characteristic(3, U2a37, <<Descriptor(4, U2902)>>)>>)

\* the characteristics of the first service of a list that has the uuid,
\* the empty list when none has
FirstServiceCharacteristics(svcs, uuid) ==
    LET matching == {i \in 1..Len(svcs) : svcs[i].uuid = uuid}
    IN  IF matching = {} THEN <<>>
        ELSE svcs[CHOOSE i \in matching : \A j \in matching : i <= j].characteristics

\* C13: when the discover-characteristics-by-service-UUID handler is invoked
\* with a connection present and a description that holds a UUID token, and
\* DiscoverServices returns, it stores the fetched full service list in
\* services, overwrites characteristics with the characteristics of the
\* first fetched service whose uuid is the canonicalized token (the empty
\* list when there is none), leaves connection and descriptors alone and
\* returns "OK".
C13_DiscoverServiceUuid ==
    [][ ( /\ last' = "MMI_IUT_DISCOVER_SERVICE_UUID"
          /\ ~IsNone(connection)
          /\ Extracted[description'].hex # <<>>
          /\ rpcLog' = <<Rpc("DiscoverServices", connection, Returned)>> )
        => LET uuid == formatUuid(Extracted[description'].hex[1])
           IN  /\ ret' = "OK"
               /\ services'.kind = "Services"
               /\ services'.val \in Databases
               /\ characteristics' =
                      CharacteristicList(FirstServiceCharacteristics(services'.val, uuid))
               /\ connection' = connection
               /\ descriptors' = descriptors ]_vars

\* the large database has two services of the UUID: the characteristics of
\* the first one are cached
C13_Witness ==
    /\ last = "MMI_IUT_DISCOVER_SERVICE_UUID"
    /\ ret = "OK"
    /\ description = Q(T180D)
    /\ services = ServiceList(LargeDatabase)
    /\ characteristics = CharacteristicList(LargeDatabase[1].characteristics)
    /\ LargeDatabase[3].uuid = LargeDatabase[1].uuid

\* the description lacks tokens the handler reads: the handle and size pair,
\* the first token, the two handles and the UUID, the handle and the UUID,
\* or part of a group of four
LacksTokens(mmi, d) ==
    LET e == Extracted[d]
    IN  CASE mmi = "MMI_IUT_SEND_PREPARE_WRITE_REQUEST_VALID_SIZE" -> e.write = <<>>
          [] mmi \in {"MMI_SEND_PRIMARY_SERVICE_UUID", "MMI_IUT_DISCOVER_SERVICE_UUID",
                      "MMI_IUT_DISCOVER_ALL_SERVICE_RECORD"} -> e.hex = <<>>
          [] mmi = "MMI_SEND_PRIMARY_SERVICE_UUID_128" -> e.hexDash = <<>>
          [] mmi = "MMI_CONFIRM_INCLUDE_SERVICE" -> Len(e.hex) % 4 # 0
          [] mmi = "MMI_IUT_DISCOVER_SERVICE_UUID_RANGE" ->
                 Len(e.hex) < 2 \/ (e.ox = <<>> /\ ~e.uuidEq.ok)
          [] mmi = "MMI_CONFIRM_CHARACTERISTICS" -> Len(e.hexDash) < 2
          [] mmi = "MMI_IUT_DISCOVER_DESCRIPTOR_RANGE" -> Len(e.hex) < 2
          [] mmi = "MMI_CONFIRM_CHARACTERISTICS_DESCRIPTORS" ->
                 e.hex = <<>> \/ ~e.uuid0x.ok
          [] OTHER -> FALSE

\* C14: an invocation whose description lacks the tokens the handler
\* expects fails without a verdict and without having invoked any remote
\* operation.
C14_ExtractionFailure ==
    [][ LacksTokens(last', description') => (ret' = FAIL /\ rpcLog' = <<>>) ]_vars

NoCaches(svcs, chars, descs) == IsNone(svcs) /\ IsNone(chars) /\ IsNone(descs)

\* C15: the caches live for one connection cycle: in every reachable state
\* services, characteristics and descriptors are all None when connection
\* is None, and no cache survives a step that changes the connection.
C15_OneConnectionCycle ==
    /\ [](IsNone(connection) => NoCaches(services, characteristics, descriptors))
    /\ [][ connection' # connection
            => NoCaches(services', characteristics', descriptors') ]_vars

\* C16: an invocation that fails leaves connection, services,
\* characteristics and descriptors as they were before it.
C16_FailureAtomic ==
    [][ ret' = FAIL => state' = state ]_vars

\* the group (service_handle, included_handle, included_uuid) matches the
\* included service at position k (from 1) of the service
MatchesAt(service, k, service_handle, included_handle, included_uuid) ==
    /\ service_handle = service.handle + k
    /\ service.included_services[k].handle = included_handle
    /\ service.included_services[k].uuid = included_uuid

\* C17: compareIncludedServices returns true exactly when, for some
\* position k of the service's included services, the reported parent
\* handle is the service's own handle plus k and the reported included
\* handle and UUID are those of the k-th included service; applying it
\* changes neither its arguments nor the session state.
C17_OffsetRule ==
    /\ []( (call.fn = "compareIncludedServices" /\ result.done)
            => LET service == call.args[1]
               IN  result.val =
                       \E k \in 1..Len(service.included_services) :
                           MatchesAt(service, k, call.args[2], call.args[3], call.args[4]) )
    /\ [][ call.fn = "compareIncludedServices" => (call' = call /\ state' = state) ]_vars

\* a match at the second position, the first included service differing
C17_Witness ==
    /\ call.fn = "compareIncludedServices"
    /\ result.done
    /\ result.val = TRUE
    /\ Len(call.args[1].included_services) = 2
    /\ MatchesAt(call.args[1], 2, call.args[2], call.args[3], call.args[4])
    /\ call.args[1].included_services[1] # call.args[1].included_services[2]

\* the positions <<service, characteristic>> of a tree
CharacteristicPositions(tree) ==
    UNION { {<<i, j>> : j \in 1..Len(tree[i].characteristics)} : i \in 1..Len(tree) }

\* the positions <<service, characteristic, descriptor>> of a tree
DescriptorPositions(tree) ==
    UNION { {<<p[1], p[2], k>> : k \in 1..Len(tree[p[1]].characteristics[p[2]].descriptors)}
            : p \in CharacteristicPositions(tree) }

Within(handle, start_handle, end_handle) ==
    start_handle <= handle /\ handle <= end_handle

\* C18: getCharacteristicsRange returns the characteristics of all services
\* of the tree whose handle lies in [start, end], both ends included, and
\* whose uuid is the target, one entry per such characteristic and nothing
\* else; getDescriptorsRange returns the descriptors of all characteristics
\* of all services whose handle lies in [start, end], one entry per such
\* descriptor and nothing else.
C18_RangeFunctions ==
    /\ (call.fn = "getCharacteristicsRange" /\ result.done)
       => LET tree == call.args[1]
              At(p) == tree[p[1]].characteristics[p[2]]
              hits == {p \in CharacteristicPositions(tree) :
                          /\ Within(At(p).handle, call.args[2], call.args[3])
                          /\ At(p).uuid = call.args[4]}
          IN  /\ Range(result.val) = {At(p) : p \in hits}
              /\ Len(result.val) = Cardinality(hits)
              /\ \A c \in Range(result.val) : Within(c.handle, call.args[2], call.args[3])
    /\ (call.fn = "getDescriptorsRange" /\ result.done)
       => LET tree == call.args[1]
              At(p) == tree[p[1]].characteristics[p[2]].descriptors[p[3]]
              hits == {p \in DescriptorPositions(tree) :
                          Within(At(p).handle, call.args[2], call.args[3])}
          IN  /\ Range(result.val) = {At(p) : p \in hits}
              /\ Len(result.val) = Cardinality(hits)
              /\ \A c \in Range(result.val) : Within(c.handle, call.args[2], call.args[3])

\* in the mixed tree the range [3, 5] holds two characteristics of the UUID,
\* of two services, and leaves out a third one of handle 6
C18_Witness ==
    /\ call = Call("getCharacteristicsRange", <<MixedDatabase, 3, 5, U2a37>>)
    /\ result.done
    /\ result.val = << Characteristic(3, U2a37, <<>>),
                       Characteristic(5, U2a37, <<Descriptor(9, U2902)>>) >>

\* C19: for an input h of four characters formatUuid returns the 36
\* characters of the template 0000XXXX-0000-1000-8000-00805f9b34fb with the
\* characters 5 to 8 replaced by the lowercase of h and every other
\* character as in the template.
C19_ShortForm ==
    (call.fn = "formatUuid" /\ result.done /\ Len(call.args[1]) = 4)
    => LET h == call.args[1]
       IN  /\ Len(result.val) = 36
           /\ \A i \in 1..36 :
                  result.val[i] = IF i \in 5..8 THEN LowerChar(h[i - 4]) ELSE common_uuid[i]

\* "180D" gives "0000180d-0000-1000-8000-00805f9b34fb"
C19_Witness ==
    /\ call = Call("formatUuid", << <<"1","8","0","D">> >>)
    /\ result.done
    /\ result.val = <<"0","0","0","0","1","8","0","d","-","0","0","0","0","-",
                      "1","0","0","0","-","8","0","0","0","-",
                      "0","0","8","0","5","f","9","b","3","4","f","b">>

\* the characters of s other than the dash, in order
StripDashes(s) ==
    LET NotDash(c) == c # "-"
    IN  SelectSeq(s, NotDash)

\* the 8-4-4-4-12 grouping: 36 characters, the dashes exactly after the
\* groups
Grouped(s) ==
    /\ Len(s) = 36
    /\ \A i \in 1..36 : s[i] = "-" <=> i \in {9, 14, 19, 24}

\* C20 as claimed: for every input of 32 or 39 characters formatUuid
\* returns the non-dash characters of the input in their order, lowercased,
\* with dashes inserted so that the result has the 8-4-4-4-12 grouping.
C20_LongForm ==
    (call.fn = "formatUuid" /\ result.done /\ Len(call.args[1]) \in {32, 39})
    => /\ StripDashes(result.val) = Lower(StripDashes(call.args[1]))
       /\ Grouped(result.val)

\* C20 amended: for every input of 32 or 39 characters formatUuid returns
\* the non-dash characters of the input in their order, lowercased, with
\* dashes inserted; the result has the 8-4-4-4-12 grouping exactly when the
\* input holds 32 characters other than the dash (32 characters without a
\* dash, or 39 characters seven of which are dashes).
C20_LongFormOf32 ==
    (call.fn = "formatUuid" /\ result.done /\ Len(call.args[1]) \in {32, 39})
    => /\ StripDashes(result.val) = Lower(StripDashes(call.args[1]))
       /\ Grouped(result.val) <=> Len(StripDashes(call.args[1])) = 32

\* "0000180D00001000800000805F9B34FB" gives
\* "0000180d-0000-1000-8000-00805f9b34fb"
C20_Witness ==
    /\ call = Call("formatUuid",
                   << <<"0","0","0","0","1","8","0","D","0","0","0","0","1","0","0","0",
                        "8","0","0","0","0","0","8","0","5","F","9","B","3","4","F","B">> >>)
    /\ result.done
    /\ result.val = <<"0","0","0","0","1","8","0","d","-","0","0","0","0","-",
                      "1","0","0","0","-","8","0","0","0","-",
                      "0","0","8","0","5","f","9","b","3","4","f","b">>
    /\ Grouped(result.val)

\* the step applies formatUuid to the result of the application before it
Reapplied ==
    /\ call.fn = "formatUuid"
    /\ result.done
    /\ call' = Call("formatUuid", <<result.val>>)
    /\ result'.done

\* an input whose length is not 4, 32 or 39 is returned as it is
PassedThrough ==
    (call.fn = "formatUuid" /\ result.done /\ Len(call.args[1]) \notin {4, 32, 39})
    => result.val = call.args[1]

\* C21 as claimed: formatUuid returns an input whose length is not 4, 32 or
\* 39 unchanged, and applied to its own result it returns that result, for
\* every input.
C21_Idempotent ==
    /\ []PassedThrough
    /\ [][ Reapplied => result'.val = result.val ]_vars

\* the input has one of the two long lengths and no character but the dash
OnlyDashes(u) == Len(u) \in {32, 39} /\ StripDashes(u) = <<>>

\* C21 amended: formatUuid returns an input whose length is not 4, 32 or 39
\* unchanged, and applied to its own result it returns that result, for
\* every input except the inputs of 32 or 39 characters that hold dashes
\* only: these give "----", which formatUuid takes for a short form.
C21_IdempotentButDashes ==
    /\ []PassedThrough
    /\ [][ (Reapplied /\ ~OnlyDashes(call.args[1])) => result'.val = result.val ]_vars
    /\ []( (call.fn = "formatUuid" /\ result.done /\ OnlyDashes(call.args[1]))
            => /\ result.val = Dashes(4)
               /\ formatUuid(result.val) # result.val )

\* the 39-character form of the PTS was canonicalized, and canonicalizing
\* the 36-character result returned it unchanged
C21_Witness ==
    /\ call = Call("formatUuid", <<U180f>>)
    /\ result.done
    /\ result.val = U180f
    /\ formatUuid(T128) = U180f

====
